---------------------------- MODULE Spec2Model ----------------------------
(***************************************************************************)
(* A model of oelint_adv/__main__.py: group_files (the Group Builder) and  *)
(* main (Execution Loop, Fix Transaction, Reporter).                       *)
(*                                                                         *)
(* File paths are sequences of one-character strings, so that splitext,    *)
(* basename, split/join, replace, endswith and re.match are computed on    *)
(* the characters the way the code computes them.                          *)
(***************************************************************************)
EXTENDS Integers, Sequences, FiniteSets, TLC

VARIABLES
    files,       \* args.files
    fix,         \* args.fix
    nobackup,    \* args.nobackup
    rules,       \* the loaded, unsuppressed rules (main:111-114)
    pc,          \* position of main
    groups,      \* groups = group_files(args.files), a sequence of lists
    gi,          \* index of the group the outer loop is at
    ai,          \* index of the file the AddFile loop is at
    stash,       \* the Stash of the current group: files, links, content
    todo,        \* files of _files not yet visited by the loop of line 135
    curf,        \* the file the loop of line 135 is at (<<>>: none)
    ri,          \* index of the rule the loop of line 136 is at
    issues,      \* the list issues
    fixedfiles,  \* the list fixedfiles (an unordered list: a set)
    txTodo,      \* files of fixedfiles the loop of line 147 has not visited
    txItems,     \* rest of _items of the loop of line 149
    txStep,      \* "rename" or "write": next step for Head(txItems)
    disk,        \* content of each path of the file system
    written,     \* the lines written to args.output
    status,      \* process exit status ("none" while running)
    targets,     \* _files of the current group (line 134)
    calls,       \* history: rule operations called in the current group
    oplog,       \* history: renames and writes of the current transaction
    fixedNow,    \* history: files returned by fix() in the current group
    txDone,      \* history: fixedfiles as consumed by the last transaction
    fatal        \* history: the step whose exception ended the run

vars == <<files, fix, nobackup, rules, pc, groups, gi, ai, stash,
          todo, curf, ri, issues, fixedfiles, txTodo, txItems, txStep, disk,
          written, status, targets, calls, oplog, fixedNow, txDone, fatal>>

(***************************************************************************)
(* Bounds of the model                                                     *)
(***************************************************************************)
MaxGroupInput == 3    \* longest input list handed to group_files alone
MaxFiles == 2         \* longest args.files of a run of main
MaxRules == 2         \* most rules loaded in a run of main
MaxFindings == 258    \* most distinct findings handed to the Reporter

(***************************************************************************)
(* Strings                                                                 *)
(***************************************************************************)
RECURSIVE LastIndexOf(_, _, _)
\* str.rfind of one character, searching down from position i; 0: absent
LastIndexOf(s, c, i) ==
    IF i = 0 THEN 0
    ELSE IF s[i] = c THEN i ELSE LastIndexOf(s, c, i - 1)

\* os.path.splitext: the extension starts at the last dot of the last path
\* component, unless only dots precede it in that component
splitext(p) ==
    LET sepIndex == LastIndexOf(p, "/", Len(p))
        dotIndex == LastIndexOf(p, ".", Len(p))
    IN  IF /\ dotIndex > sepIndex
           /\ \E k \in (sepIndex + 1)..(dotIndex - 1) : p[k] # "."
        THEN <<SubSeq(p, 1, dotIndex - 1), SubSeq(p, dotIndex, Len(p))>>
        ELSE <<p, <<>> >>

\* os.path.basename: what follows the last slash
basename(p) == SubSeq(p, LastIndexOf(p, "/", Len(p)) + 1, Len(p))

RECURSIVE split(_, _)
\* str.split(sep): the list of the pieces between the separators
split(s, sep) ==
    IF \A k \in 1..Len(s) : s[k] # sep THEN <<s>>
    ELSE LET k == CHOOSE k \in 1..Len(s) :
                      /\ s[k] = sep
                      /\ \A m \in 1..(k - 1) : s[m] # sep
         IN  <<SubSeq(s, 1, k - 1)>> \o split(SubSeq(s, k + 1, Len(s)), sep)

RECURSIVE join(_, _)
\* sep.join(parts)
join(sep, parts) ==
    IF parts = <<>> THEN <<>>
    ELSE IF Len(parts) = 1 THEN parts[1]
    ELSE parts[1] \o <<sep>> \o join(sep, Tail(parts))

RECURSIVE replace(_, _, _)
\* str.replace(c, by): every character c replaced by the string by
replace(s, c, by) ==
    IF s = <<>> THEN <<>>
    ELSE (IF Head(s) = c THEN by ELSE <<Head(s)>>) \o replace(Tail(s), c, by)

\* str.endswith
endswith(s, suffix) ==
    /\ Len(s) >= Len(suffix)
    /\ SubSeq(s, Len(s) - Len(suffix) + 1, Len(s)) = suffix

\* one regular-expression atom against one character: a dot matches any
\* character, every other character of the model's alphabet is a literal
AtomMatches(a, c) == a = "." \/ a = c

RECURSIVE MatchFrom(_, _, _, _)
\* the pattern from position i matches a prefix of s starting at position j
MatchFrom(pat, i, s, j) ==
    IF i > Len(pat) THEN TRUE
    ELSE IF i + 1 <= Len(pat) /\ pat[i + 1] = "*"
    THEN \E k \in j..(Len(s) + 1) :
            /\ \A m \in j..(k - 1) : AtomMatches(pat[i], s[m])
            /\ MatchFrom(pat, i + 2, s, k)
    ELSE /\ j <= Len(s)
         /\ AtomMatches(pat[i], s[j])
         /\ MatchFrom(pat, i + 1, s, j + 1)

\* re.match(pattern, string): a match anchored at the start of the string
re_match(pat, s) == MatchFrom(pat, 1, s, 1)

EXT_BB == <<".", "b", "b">>
EXT_BBAPPEND == <<".", "b", "b", "a", "p", "p", "e", "n", "d">>

(***************************************************************************)
(* group_files                                                             *)
(***************************************************************************)
\* "_".join(os.path.basename(_filename).split("_")[:-1]).replace("%", "")
filename_key(_filename) ==
    LET parts == split(basename(_filename), "_")
    IN  replace(join("_", SubSeq(parts, 1, Len(parts) - 1)), "%", <<>>)

\* ".*/" + os.path.basename(_filename).replace("%", ".*")
needle(_filename) ==
    <<".", "*", "/">> \o replace(basename(_filename), "%", <<".", "*">>)

\* position of key k in the dict res (insertion-ordered); 0: absent
KeyIndex(res, k) ==
    IF \E n \in 1..Len(res) : res[n].key = k
    THEN CHOOSE n \in 1..Len(res) : res[n].key = k
    ELSE 0

\* if not key in res: res[key] = set();  res[key].add(f)
AddUnderKey(res, k, f) ==
    LET n == KeyIndex(res, k)
    IN  IF n = 0 THEN Append(res, [key |-> k, val |-> {f}])
        ELSE [res EXCEPT ![n].val = @ \cup {f}]

RECURSIVE Pass1(_, _, _)
\* the first loop of group_files: the .bb files, from position i on
Pass1(fs, i, res) ==
    IF i > Len(fs) THEN res
    ELSE LET sp == splitext(fs[i])
         IN  IF sp[2] # EXT_BB THEN Pass1(fs, i + 1, res)
             ELSE Pass1(fs, i + 1, AddUnderKey(res, filename_key(sp[1]), fs[i]))

\* first group, in the order of the dict, one of whose files the needle matches
FirstMatch(res, ndl) ==
    LET hits == {n \in 1..Len(res) : \E x \in res[n].val : re_match(ndl, x)}
    IN  IF hits = {} THEN 0
        ELSE CHOOSE n \in hits : \A m \in hits : n <= m

RECURSIVE Pass2(_, _, _)
\* the second loop of group_files: the .bbappend files, from position i on
Pass2(fs, i, res) ==
    IF i > Len(fs) THEN res
    ELSE LET sp == splitext(fs[i])
         IN  IF sp[2] # EXT_BBAPPEND THEN Pass2(fs, i + 1, res)
             ELSE LET n == FirstMatch(res, needle(sp[1]))
                  IN  IF n # 0
                      THEN Pass2(fs, i + 1, [res EXCEPT ![n].val = @ \cup {fs[i]}])
                      ELSE Pass2(fs, i + 1,
                                 AddUnderKey(res, filename_key(sp[1]), fs[i]))

\* files.index(x): the first position of x
IndexOf(fs, x) == CHOOSE n \in 1..Len(fs) : fs[n] = x /\ \A m \in 1..(n - 1) : fs[m] # x

RECURSIVE SortedByIndex(_, _)
\* sorted(v, key=lambda index: files.index(index))
SortedByIndex(v, fs) ==
    IF v = {} THEN <<>>
    ELSE LET x == CHOOSE x \in v : \A y \in v : IndexOf(fs, x) <= IndexOf(fs, y)
         IN  <<x>> \o SortedByIndex(v \ {x}, fs)

\* group_files(files): the values of res, each sorted into a list
group_files(fs) ==
    LET res == Pass2(fs, 1, Pass1(fs, 1, <<>>))
    IN  [n \in 1..Len(res) |-> SortedByIndex(res[n].val, fs)]

(***************************************************************************)
(* Inputs                                                                  *)
(***************************************************************************)
DIR == <<"d", "/">>
Range(s) == {s[n] : n \in 1..Len(s)}
ListsUpTo(S, n) == UNION {[1..k -> S] : k \in 1..n}

\* paths handed to group_files alone: with and without a directory, base
\* names with and without underscore, wildcard and dot; two paths that are
\* neither .bb nor .bbappend
BaseStems == {<<"a", "b", "_", "1">>, <<"a", "b", "b", "_", "1">>}
AppendStems == {<<"a", "b", "_", "1">>, <<"a", "%">>, <<"a", "%", "b">>,
                <<"a", ".", "b">>}
OtherPaths == {DIR \o <<"a", "b", "_", "1", ".", "i", "n", "c">>,
               <<"a", "b", "_", "1">>}
GroupUniverse ==
    {d \o s \o EXT_BB : d \in {<<>>, DIR}, s \in BaseStems}
    \cup {d \o s \o EXT_BBAPPEND : d \in {<<>>, DIR}, s \in AppendStems}
    \cup OtherPaths

\* paths handed to main: a recipe, its append, and an append without recipe
A_BB == DIR \o <<"a", "_", "1">> \o EXT_BB
A_BBAPPEND == DIR \o <<"a", "_", "1">> \o EXT_BBAPPEND
B_BBAPPEND == DIR \o <<"b", "_", "1">> \o EXT_BBAPPEND
MainUniverse == {A_BB, A_BBAPPEND, B_BBAPPEND}

\* a rule: its flags OnAppend and OnlyAppend
RuleKinds == [OnAppend : BOOLEAN, OnlyAppend : BOOLEAN]

\* a finding is a pair (sort key, display line)
F1 == <<1, 1>>
\* what one call of check() may return
CheckResults == {<<>>, <<F1>>}

NoFile == <<>>
EmptyStash == [files |-> {}, links |-> {}, content |-> [p \in {} |-> "orig"]]

(***************************************************************************)
(* Collaborators of main, as far as main uses them                         *)
(***************************************************************************)
\* stash.GetRecipes(): the .bb files the stash holds
GetRecipes(st) == {f \in st.files : endswith(f, EXT_BB)}

\* stash.GetLinksForFile(f): the files linked to f; none for an unknown file
GetLinksForFile(st, f) == {g \in st.files : <<f, g>> \in st.links}

\* stash.GetLoneAppends(): the appends linked to no recipe of the stash
GetLoneAppends(st) ==
    {f \in st.files : /\ endswith(f, EXT_BBAPPEND)
                      /\ GetLinksForFile(st, f) \cap GetRecipes(st) = {}}

\* "".join([x.RealRaw for x in stash.GetItemsFor(filename=i, nolink=True)]):
\* the text of the items of i; a file the stash does not hold has no items
Render(st, i) == IF i \in st.files THEN st.content[i] ELSE "empty"

\* the link relations Finalize() may set up: symmetric, without loops
LinkRelations(fs) ==
    {l \in SUBSET (fs \X fs) :
        \A pr \in l : pr[1] # pr[2] /\ <<pr[2], pr[1]>> \in l}

\* all orders in which a set may be listed
Orderings(S) ==
    {s \in [1..Cardinality(S) -> S] : \A x \in S : \E n \in DOMAIN s : s[n] = x}

(***************************************************************************)
(* main                                                                    *)
(***************************************************************************)
\* SkipRule without the test of line 139
SkipRuleNoOnlyAppend(r, f) == ~r.OnAppend /\ endswith(f, EXT_BBAPPEND)

\* lines 137-140: the rule is skipped for this file
SkipRule(r, f) ==
    \/ ~r.OnAppend /\ endswith(f, EXT_BBAPPEND)
    \/ r.OnlyAppend /\ ~endswith(f, EXT_BBAPPEND)

\* TxItemsFor without the linked files
TxItemsForOnlySelf(st, f) == {<<f>>}

\* line 148: _items = [f] + stash.GetLinksForFile(f)
TxItemsFor(st, f) == {<<f>> \o l : l \in Orderings(GetLinksForFile(st, f))}

\* line 151: a backup is made before the write
BackupWanted(nb) == ~nb

\* lines 159 and 166: len(sorted(set(issues))) as the 8-bit exit status
ExitStatusModulus == 256
ExitStatus(iss) == Cardinality(Range(iss)) % ExitStatusModulus

RECURSIVE SortedByKey(_)
\* sorted(set(issues), key=lambda x: x[0]): every list of the set that is
\* ascending in the key (findings of equal key come in the set's order,
\* which is any order); computed around a middle key
SortedByKey(S) ==
    IF S = {} THEN {<<>>}
    ELSE LET keys == {x[1] : x \in S}
             k == CHOOSE k \in keys :
                     Cardinality({j \in keys : j < k}) = Cardinality(keys) \div 2
         IN  {lo \o eq \o hi : lo \in SortedByKey({x \in S : x[1] < k}),
                               eq \in Orderings({x \in S : x[1] = k}),
                               hi \in SortedByKey({x \in S : x[1] > k})}

\* the exit of a group's loop body: the next group, or the Reporter
AfterGroup == IF gi < Len(groups) THEN "group" ELSE "report"

Idle ==
    /\ groups = <<>> /\ gi = 0 /\ ai = 0 /\ stash = EmptyStash
    /\ todo = {} /\ curf = NoFile /\ ri = 0
    /\ fixedfiles = {} /\ txTodo = {} /\ txItems = <<>> /\ txStep = "none"
    /\ disk = [cur |-> [p \in MainUniverse |-> "orig"],
               bak |-> [p \in MainUniverse |-> "absent"]]
    /\ written = <<>> /\ status = "none" /\ targets = {}
    /\ calls = <<>> /\ oplog = <<>> /\ fixedNow = {} /\ txDone = {}
    /\ fatal = "none"

\* main after create_argparser() and load_rules()
Init ==
    /\ files \in ListsUpTo(MainUniverse, MaxFiles)
    /\ fix \in BOOLEAN
    /\ nobackup \in BOOLEAN
    /\ rules \in {<<>>} \cup ListsUpTo(RuleKinds, MaxRules)
    /\ pc = "start"
    /\ issues = <<>>
    /\ Idle

\* lines 120-122
GroupFiles ==
    /\ pc = "start"
    /\ issues' = <<>>
    /\ fixedfiles' = {}
    /\ groups' = group_files(files)
    /\ pc' = IF groups' = <<>> THEN "report" ELSE "group"
    /\ UNCHANGED <<files, fix, nobackup, rules, gi, ai, stash, todo,
                   curf, ri, txTodo, txItems, txStep, disk, written, status,
                   targets, calls, oplog, fixedNow, txDone, fatal>>

\* lines 123-124: the next group and its fresh Stash
NextGroup ==
    /\ pc = "group"
    /\ gi < Len(groups)
    /\ gi' = gi + 1
    /\ stash' = EmptyStash
    /\ ai' = 1
    /\ pc' = "addfile"
    /\ targets' = {} /\ calls' = <<>> /\ oplog' = <<>> /\ fixedNow' = {}
    /\ UNCHANGED <<files, fix, nobackup, rules, groups, todo, curf, ri,
                   issues, fixedfiles, txTodo, txItems, txStep, disk, written,
                   status, txDone, fatal>>

\* lines 125-130: stash.AddFile(f), or FileNotFoundError and the file skipped
AddFile ==
    /\ pc = "addfile"
    /\ ai <= Len(groups[gi])
    /\ LET f == groups[gi][ai]
       IN  \/ stash' = [stash EXCEPT
                           !.files = @ \cup {f},
                           !.content = [p \in stash.files \cup {f} |->
                                          IF p = f THEN disk.cur[f]
                                          ELSE stash.content[p]]]
           \/ stash' = stash
    /\ ai' = ai + 1
    /\ UNCHANGED <<files, fix, nobackup, rules, pc, groups, gi, todo,
                   curf, ri, issues, fixedfiles, txTodo, txItems, txStep, disk,
                   written, status, targets, calls, oplog, fixedNow, txDone,
                   fatal>>

\* lines 132-134: stash.Finalize() and the list _files
Finalize ==
    /\ pc = "addfile"
    /\ ai > Len(groups[gi])
    /\ \E l \in LinkRelations(stash.files) :
          stash' = [stash EXCEPT !.links = l]
    /\ targets' = GetRecipes(stash') \cup GetLoneAppends(stash')
    /\ todo' = targets'
    /\ curf' = NoFile
    /\ ri' = 0
    /\ pc' = "exec"
    /\ UNCHANGED <<files, fix, nobackup, rules, groups, gi, ai, issues,
                   fixedfiles, txTodo, txItems, txStep, disk, written, status,
                   calls, oplog, fixedNow, txDone, fatal>>

\* the loop of line 136 has run through the rules for the current file
RulesDone == curf = NoFile \/ ri > Len(rules)

\* lines 135 and 144-145: the next file of _files (a set has no fixed order)
PickFile ==
    /\ pc = "exec"
    /\ RulesDone
    /\ \E f \in todo :
          /\ curf' = f
          /\ todo' = todo \ {f}
    /\ ri' = 1
    /\ UNCHANGED <<files, fix, nobackup, rules, pc, groups, gi, ai,
                   stash, issues, fixedfiles, txTodo, txItems, txStep, disk,
                   written, status, targets, calls, oplog, fixedNow, txDone,
                   fatal>>

\* lines 136-143: one rule on the current file
RuleStep ==
    /\ pc = "exec"
    /\ curf # NoFile
    /\ ri <= Len(rules)
    /\ ri' = ri + 1
    /\ IF SkipRule(rules[ri], curf)
       THEN UNCHANGED <<stash, issues, fixedfiles, calls, fixedNow>>
       ELSE /\ IF fix
               THEN \E m \in SUBSET ({curf} \cup GetLinksForFile(stash, curf)) :
                       /\ fixedfiles' = fixedfiles \cup m
                       /\ fixedNow' = fixedNow \cup m
                       /\ stash' = [stash EXCEPT !.content =
                                      [p \in stash.files |->
                                         IF p \in m THEN "fixed"
                                         ELSE stash.content[p]]]
                       /\ calls' = calls \o <<<<"fix", curf, ri>>,
                                               <<"check", curf, ri>>>>
               ELSE /\ UNCHANGED <<stash, fixedfiles, fixedNow>>
                    /\ calls' = Append(calls, <<"check", curf, ri>>)
            /\ \E found \in CheckResults : issues' = issues \o found
    /\ UNCHANGED <<files, fix, nobackup, rules, pc, groups, gi, ai,
                   todo, curf, txTodo, txItems, txStep, disk, written, status,
                   targets, oplog, txDone, fatal>>

\* lines 146-147: fixedfiles = list(set(fixedfiles)), and the loop over it
BeginTx ==
    /\ pc = "exec"
    /\ RulesDone
    /\ todo = {}
    /\ txTodo' = fixedfiles
    /\ txDone' = fixedfiles
    /\ txItems' = <<>>
    /\ pc' = "fixtx"
    /\ UNCHANGED <<files, fix, nobackup, rules, groups, gi, ai, stash,
                   todo, curf, ri, issues, fixedfiles, txStep, disk, written,
                   status, targets, calls, oplog, fixedNow, fatal>>

\* lines 147-148: the next fixed file and its _items
TxPick ==
    /\ pc = "fixtx"
    /\ txItems = <<>>
    /\ \E f \in txTodo :
          /\ txTodo' = txTodo \ {f}
          /\ txItems' \in TxItemsFor(stash, f)
    /\ txStep' = IF BackupWanted(nobackup) THEN "rename" ELSE "write"
    /\ UNCHANGED <<files, fix, nobackup, rules, pc, groups, gi, ai,
                   stash, todo, curf, ri, issues, fixedfiles, disk, written,
                   status, targets, calls, oplog, fixedNow, txDone, fatal>>

\* lines 151-152: os.rename(i, i + ".bak")
Rename ==
    /\ pc = "fixtx"
    /\ txItems # <<>>
    /\ txStep = "rename"
    /\ LET i == Head(txItems)
       IN  /\ disk.cur[i] # "absent"
           /\ disk' = [cur |-> [disk.cur EXCEPT ![i] = "absent"],
                       bak |-> [disk.bak EXCEPT ![i] = disk.cur[i]]]
           /\ oplog' = Append(oplog, <<"rename", i, disk.cur[i]>>)
    /\ txStep' = "write"
    /\ UNCHANGED <<files, fix, nobackup, rules, pc, groups, gi, ai,
                   stash, todo, curf, ri, issues, fixedfiles, txTodo, txItems,
                   written, status, targets, calls, fixedNow, txDone, fatal>>

\* lines 153-157: open(i, "w") and the write of the rendered items
Write ==
    /\ pc = "fixtx"
    /\ txItems # <<>>
    /\ txStep = "write"
    /\ LET i == Head(txItems)
       IN  /\ disk' = [disk EXCEPT !.cur[i] = Render(stash, i)]
           /\ oplog' = Append(oplog, <<"write", i, Render(stash, i)>>)
    /\ txItems' = Tail(txItems)
    /\ txStep' = IF BackupWanted(nobackup) THEN "rename" ELSE "write"
    /\ UNCHANGED <<files, fix, nobackup, rules, pc, groups, gi, ai,
                   stash, todo, curf, ri, issues, fixedfiles, txTodo, written,
                   status, targets, calls, fixedNow, txDone, fatal>>

\* lines 152, 153 and 167: os.rename or open raises (OSError); the exception
\* leaves both loops for the handler of line 167
TxFails ==
    /\ pc = "fixtx"
    /\ txItems # <<>>
    /\ fatal' = txStep
    /\ pc' = "except"
    /\ UNCHANGED <<files, fix, nobackup, rules, groups, gi, ai, stash,
                   todo, curf, ri, issues, fixedfiles, txTodo, txItems, txStep,
                   disk, written, status, targets, calls, oplog, fixedNow,
                   txDone>>

\* the transaction of the current group has visited all of fixedfiles
TxComplete == pc = "fixtx" /\ txItems = <<>> /\ txTodo = {}

\* line 147 exhausted: back to line 123, or on to line 159
TxEnd ==
    /\ TxComplete
    /\ pc' = AfterGroup
    /\ UNCHANGED <<files, fix, nobackup, rules, groups, gi, ai, stash,
                   todo, curf, ri, issues, fixedfiles, txTodo, txItems, txStep,
                   disk, written, status, targets, calls, oplog, fixedNow,
                   txDone, fatal>>

\* lines 159-166: the Reporter and sys.exit(len(issues))
Report ==
    /\ pc = "report"
    /\ written' \in {[n \in DOMAIN s |-> s[n][2]] : s \in SortedByKey(Range(issues))}
    /\ status' = ExitStatus(issues)
    /\ pc' = "exited"
    /\ UNCHANGED <<files, fix, nobackup, rules, groups, gi, ai, stash,
                   todo, curf, ri, issues, fixedfiles, txTodo, txItems, txStep,
                   disk, targets, calls, oplog, fixedNow, txDone, fatal>>

\* lines 161-165 and 167: open(args.output, "w") or the write raises
ReportFails ==
    /\ pc = "report"
    /\ fatal' = "output"
    /\ pc' = "except"
    /\ UNCHANGED <<files, fix, nobackup, rules, groups, gi, ai, stash,
                   todo, curf, ri, issues, fixedfiles, txTodo, txItems, txStep,
                   disk, written, status, targets, calls, oplog, fixedNow,
                   txDone>>

\* lines 167-173: the handler prints the trace, main() returns and the
\* interpreter ends with status 0
Handler ==
    /\ pc = "except"
    /\ status' = 0
    /\ pc' = "exited"
    /\ UNCHANGED <<files, fix, nobackup, rules, groups, gi, ai, stash,
                   todo, curf, ri, issues, fixedfiles, txTodo, txItems, txStep,
                   disk, written, targets, calls, oplog, fixedNow, txDone,
                   fatal>>

Next ==
    \/ GroupFiles
    \/ NextGroup
    \/ AddFile
    \/ Finalize
    \/ PickFile
    \/ RuleStep
    \/ BeginTx
    \/ TxPick
    \/ Rename
    \/ Write
    \/ TxFails
    \/ TxEnd
    \/ Report
    \/ ReportFails
    \/ Handler

Spec == Init /\ [][Next]_vars

(***************************************************************************)
(* group_files on its own: called on an input list, and called again on    *)
(* the same files in another order                                         *)
(***************************************************************************)
InitGroup ==
    /\ files \in ListsUpTo(GroupUniverse, MaxGroupInput)
    /\ fix = FALSE
    /\ nobackup = FALSE
    /\ rules = <<>>
    /\ pc = "start"
    /\ issues = <<>>
    /\ Idle

\* group_files has returned and no group has been processed yet
Grouped == pc \in {"group", "report"} /\ gi = 0

\* group_files called on the same files with two neighbours exchanged
Regroup ==
    /\ Grouped
    /\ \E k \in 1..(Len(files) - 1) :
          files' = [files EXCEPT ![k] = files[k + 1], ![k + 1] = files[k]]
    /\ groups' = group_files(files')
    /\ pc' = IF groups' = <<>> THEN "report" ELSE "group"
    /\ UNCHANGED <<fix, nobackup, rules, gi, ai, stash, todo, curf, ri, issues,
                   fixedfiles, txTodo, txItems, txStep, disk, written, status,
                   targets, calls, oplog, fixedNow, txDone, fatal>>

NextGroupFiles ==
    \/ GroupFiles
    \/ Regroup

SpecGroup == InitGroup /\ [][NextGroupFiles]_vars

(***************************************************************************)
(* The Reporter on its own: main at line 159 with a list of issues         *)
(***************************************************************************)
\* n distinct findings, the whole list repeated d times
FindingList(n, d) ==
    [i \in 1..(n * d) |-> <<((i - 1) % n) + 1, ((i - 1) % n) + 1>>]

\* short lists of findings that share sort keys and lines
SmallFindings == {<<1, 1>>, <<1, 2>>, <<2, 1>>}

InitReport ==
    /\ files = <<A_BB>>
    /\ fix = FALSE
    /\ nobackup = FALSE
    /\ rules = <<>>
    /\ pc = "report"
    /\ issues \in {FindingList(n, d) : n \in 0..MaxFindings, d \in 1..2}
                  \cup ListsUpTo(SmallFindings, 3)
    /\ Idle

NextReport ==
    \/ Report
    \/ ReportFails
    \/ Handler

SpecReport == InitReport /\ [][NextReport]_vars

(***************************************************************************)
(* Properties                                                              *)
(***************************************************************************)
\* the extension category of a path
IsBase(p) == splitext(p)[2] = EXT_BB
IsAppend(p) == splitext(p)[2] = EXT_BBAPPEND
Stem(p) == basename(splitext(p)[1])

\* the groups as a set of sets of files
Partition(gs) == {Range(gs[n]) : n \in 1..Len(gs)}

RECURSIVE GlobMatch(_, _)
\* the name s is the pattern p with each % expanded to any characters
GlobMatch(p, s) ==
    IF p = <<>> THEN s = <<>>
    ELSE IF Head(p) = "%"
    THEN \E k \in 1..(Len(s) + 1) : GlobMatch(Tail(p), SubSeq(s, k, Len(s)))
    ELSE s # <<>> /\ Head(s) = Head(p) /\ GlobMatch(Tail(p), Tail(s))

\* C1: the fixed files a group's transaction consumes were all returned by a
\* fix operation during that same group's processing; none is left over from
\* an earlier group.
C1_TxOnlyThisGroupsFixes == pc = "fixtx" => txDone \subseteq fixedNow

\* C2: grouping is order-stable: calling group_files on the same files in
\* another order yields the same partition of the files into groups.
C2_OrderStable ==
    [][(Grouped /\ Grouped') => Partition(groups') = Partition(groups)]_vars

\* C3: an append file whose base name, with % expanded to any characters,
\* is the base name of a .bb file of the input is in that .bb file's group.
C3_AppendJoinsItsBase ==
    Grouped =>
        \A a \in Range(files) : \A b \in Range(files) :
            (IsAppend(a) /\ IsBase(b) /\ GlobMatch(Stem(a), Stem(b)))
                => \E n \in 1..Len(groups) : {a, b} \subseteq Range(groups[n])

\* C4: the groups partition the .bb and .bbappend inputs: each such path is
\* at exactly one position of exactly one group, no group is empty, and a
\* path of another or no extension is in no group.
C4_GroupsPartitionInputs ==
    Grouped =>
        /\ \A n \in 1..Len(groups) : groups[n] # <<>>
        /\ \A p \in Range(files) :
              LET at == {nm \in (1..Len(groups)) \X (1..MaxGroupInput) :
                            /\ nm[2] <= Len(groups[nm[1]])
                            /\ groups[nm[1]][nm[2]] = p}
              IN  IF IsBase(p) \/ IsAppend(p)
                  THEN Cardinality(at) = 1
                  ELSE at = {}

\* C5: a failing rename or write does not keep the other files from being
\* processed: when the run has ended after such a failure, no other file of
\* the transaction and no later group is left unprocessed.
C5_FailureIsolated ==
    (pc = "exited" /\ fatal \in {"rename", "write"}) =>
        /\ txTodo = {}
        /\ Len(txItems) <= 1
        /\ gi = Len(groups)

\* C6: a run that the Reporter ends exits with the number of distinct
\* findings, which is 0 exactly when there are no findings, and every
\* distinct finding is written once.
C6_ExitStatusIsFindingCount ==
    (pc = "exited" /\ fatal = "none") =>
        /\ status = Cardinality(Range(issues))
        /\ (status = 0 <=> issues = <<>>)
        /\ Len(written) = Cardinality(Range(issues))

\* C7: when a group's fix transaction is complete, every fixed file and
\* every file linked to it has been written from the stash's items for it;
\* with backups a write directly follows the rename of that same file to its
\* backup, without backups no rename happens.
C7_TxRewritesLinkedFiles ==
    /\ TxComplete =>
          \A f \in txDone : \A i \in {f} \cup GetLinksForFile(stash, f) :
              \E n \in 1..Len(oplog) : oplog[n] = <<"write", i, Render(stash, i)>>
    /\ \A n \in 1..Len(oplog) :
          IF nobackup
          THEN oplog[n][1] = "write"
          ELSE oplog[n][1] = "write" =>
                  /\ n > 1
                  /\ oplog[n - 1][1] = "rename"
                  /\ oplog[n - 1][2] = oplog[n][2]

\* a transaction with backups has rewritten a fixed file and a file that is
\* only linked to it
C7_Witness ==
    /\ TxComplete
    /\ ~nobackup
    /\ \E f \in txDone : \E i \in GetLinksForFile(stash, f) :
          /\ i \notin txDone
          /\ \E n \in 2..Len(oplog) :
                oplog[n][1] = "write" /\ oplog[n][2] = i

\* the loops of lines 135-145 are through for the current group
ExecComplete == pc = "exec" /\ RulesDone /\ todo = {}

\* C8: for every target file and rule: no call at all if the file is an
\* append and the rule is not for appends, or the rule is only for appends
\* and the file is none; otherwise one check, and one fix directly before
\* it exactly in fix mode.
C8_RuleGating ==
    ExecComplete =>
        \A f \in targets : \A r \in 1..Len(rules) :
            LET fixAt == {n \in 1..Len(calls) : calls[n] = <<"fix", f, r>>}
                checkAt == {n \in 1..Len(calls) : calls[n] = <<"check", f, r>>}
            IN  IF \/ IsAppend(f) /\ ~rules[r].OnAppend
                   \/ rules[r].OnlyAppend /\ ~IsAppend(f)
                THEN fixAt = {} /\ checkAt = {}
                ELSE /\ Cardinality(checkAt) = 1
                     /\ IF fix
                        THEN /\ Cardinality(fixAt) = 1
                             /\ \A n \in checkAt : n - 1 \in fixAt
                        ELSE fixAt = {}

\* in fix mode one rule was skipped for a target file and another rule was
\* run on the same file
C8_Witness ==
    /\ ExecComplete
    /\ fix
    /\ \E f \in targets : \E r1, r2 \in 1..Len(rules) :
          /\ SkipRule(rules[r1], f)
          /\ \E n \in 2..Len(calls) : calls[n] = <<"check", f, r2>>

\* C9: with backups, the backup of a file holds the content the file had
\* before the run.
C9_BackupHoldsOriginal ==
    ~nobackup => \A p \in MainUniverse : disk.bak[p] \in {"absent", "orig"}

\* C10: exit status 0 is returned only by a run that went through all phases
\* and found nothing.
C10_ZeroMeansClean ==
    (pc = "exited" /\ status = 0) => (fatal = "none" /\ issues = <<>>)

=============================================================================
